---- MODULE Spec2Model ----
(***************************************************************************)
(* Model of sgl.py: the 1-d time-independent Schroedinger solver.          *)
(*                                                                         *)
(* Numbers.  Reals are exact rationals <<n, d>> (d > 0, lowest terms), so  *)
(* every statement below is about exact arithmetic, not about rounding.    *)
(* A component of an eigenvector is a record [kind, num, rad]:             *)
(*   kind = "fin"              the value num / sqrt(rad), rad a rational   *)
(*   kind = "nan" | "inf" | "ninf"   the IEEE result of a division by 0    *)
(* so the division by np.sqrt(norm) is carried symbolically and squaring   *)
(* a component gives back the rational num^2 / rad.                        *)
(*                                                                         *)
(* The eigenvector array eigenvectors[row, col] is a sequence of columns,  *)
(* each a sequence of nPoints components.                                  *)
(*                                                                         *)
(* Inputs.  The interpolation control points are two points (x0,y0),       *)
(* (x1,y1); with two points interp1d, the natural CubicSpline and the      *)
(* degree-1 polyfit are all the straight line through them and differ      *)
(* only in that interp1d raises outside [x0, x1].                          *)
(***************************************************************************)
EXTENDS Integers, Sequences, FiniteSets, TLC

VARIABLES para, potential, hamiltonian_diag, hamiltonian_offdiag,
          raw_eigenvectors, eigenvalues, eigenvectors, x_i,
          written, log, error, deltaRead

vars == <<para, potential, hamiltonian_diag, hamiltonian_offdiag,
          raw_eigenvectors, eigenvalues, eigenvectors, x_i,
          written, log, error, deltaRead>>

\* ------------------------------------------------------------- bounds
MaxPoints == 4
MaxMass == 2

\* ------------------------------------------------- rational arithmetic
Abs(i) == IF i < 0 THEN -i ELSE i

RECURSIVE GCD(_, _)
GCD(a, b) == IF b = 0 THEN a ELSE GCD(b, a % b)

Rat(n, d) ==
    LET s == IF d < 0 THEN -1 ELSE 1
        g == GCD(Abs(n), Abs(d))
    IN  <<(s * n) \div g, (s * d) \div g>>

RInt(i) == <<i, 1>>
RAdd(p, q) == Rat(p[1] * q[2] + q[1] * p[2], p[2] * q[2])
RSub(p, q) == Rat(p[1] * q[2] - q[1] * p[2], p[2] * q[2])
RMul(p, q) == Rat(p[1] * q[1], p[2] * q[2])
RDiv(p, q) == Rat(p[1] * q[2], p[2] * q[1])
RLeq(p, q) == p[1] * q[2] <= q[1] * p[2]
RLt(p, q) == p[1] * q[2] < q[1] * p[2]
RAbs(p) == <<Abs(p[1]), p[2]>>

RECURSIVE RSumTo(_, _)
RSumTo(s, k) == IF k = 0 THEN RInt(0) ELSE RAdd(RSumTo(s, k - 1), s[k])
RSum(s) == RSumTo(s, Len(s))

\* ---------------------------------------------------------- numpy helpers
\* np.linspace(start, stop, num): num samples, both ends included
Linspace(start, stop, num) ==
    [i \in 1..num |->
        IF num = 1 THEN start
        ELSE RAdd(start, RMul(RDiv(RSub(stop, start), RInt(num - 1)), RInt(i - 1)))]

\* a[1:-1]
Interior(s) == [i \in 1..(Len(s) - 2) |-> s[i + 1]]

Fin(num, rad) == [kind |-> "fin", num |-> num, rad |-> rad]
NonFin(k) == [kind |-> k, num |-> 0, rad |-> RInt(1)]
IsFin(c) == c.kind = "fin"
\* c ** 2 of a finite component
Sq(c) == Rat(c.num * c.num * c.rad[2], c.rad[1])

KnownTypes == {"linear", "cspline", "polynomial"}
Unwritten == [potential |-> <<>>, eigenvalues |-> <<>>,
              eigenvectors |-> <<>>, expectation_values |-> <<>>]

\* ------------------------------------------------------- configurations
\* iomodul.read_schrodinger_inp() is not part of the core; the dictionaries
\* it can hand over are enumerated here.  'Delta' is absent (<<>>) until
\* _write_hamiltonian stores it.
GridBounds == {<<-2, 2>>, <<0, 3>>}
ControlPoints == {<<<<-2, 3>>, <<1, 1>>>>,     \* flat, covers every grid
                  <<<<-2, 3>>, <<0, 5>>>>,     \* slope 1, covers every grid
                  <<<<0, 1>>, <<0, 2>>>>}      \* narrow: grids reach outside
InterpolationTypes == KnownTypes \cup {"spline3"}
\* index ranges: every pair selecting one or two eigenvalues, and every
\* kind of invalid pair (first < 1, last > nPoints, first > last)
IndexRanges ==
    { r \in (0..(MaxPoints + 1)) \X (0..(MaxPoints + 1)) : r[2] - r[1] < 2 }

Configurations ==
    { [xMin |-> b[1], xMax |-> b[2], nPoints |-> n, mass |-> m,
       interpolation_type |-> t,
       interpolation_points_number |-> 2,
       interpolation_points_x |-> c[1], interpolation_points_y |-> c[2],
       first_eigenvalue |-> r[1], last_eigenvalue |-> r[2],
       Delta |-> <<>>] :
         b \in GridBounds, n \in 3..MaxPoints, m \in 1..MaxMass,
         t \in InterpolationTypes, c \in ControlPoints, r \in IndexRanges }

\* ------------------------------------------------- interpolate_potential
\* the branch taken by the if/elif chain; no else branch exists, so an
\* unknown name leaves interpolation_fun unbound
\* mutant: an else branch that falls back to the linear interpolant
InterpolationFunDefaultLinear(p) ==
    CASE p.interpolation_type = "cspline" -> "CubicSpline"
      [] p.interpolation_type = "polynomial" -> "poly1d"
      [] OTHER -> "interp1d"

InterpolationFun(p) ==
    CASE p.interpolation_type = "linear" -> "interp1d"
      [] p.interpolation_type = "cspline" -> "CubicSpline"
      [] p.interpolation_type = "polynomial" -> "poly1d"
      [] OTHER -> "unbound"

\* the straight line through the two control points, at x
LineAt(p, x) ==
    LET x0 == RInt(p.interpolation_points_x[1])
        x1 == RInt(p.interpolation_points_x[2])
        y0 == RInt(p.interpolation_points_y[1])
        y1 == RInt(p.interpolation_points_y[2])
    IN  RAdd(y0, RMul(RSub(x, x0), RDiv(RSub(y1, y0), RSub(x1, x0))))

\* interp1d (bounds_error) refuses a point outside the control points
OutsideSupport(p, x) ==
    \/ RLt(x, RInt(p.interpolation_points_x[1]))
    \/ RLt(RInt(p.interpolation_points_x[2]), x)

Xaxis(p) == Linspace(RInt(p.xMin), RInt(p.xMax), p.nPoints)

\* the whole function: [error, potential, xaxis, log]; log lists the
\* persistence sinks and library solvers called, in call order
interpolate_potential(p) ==
    LET xaxis == Xaxis(p)
        fun == InterpolationFun(p)
    IN  IF fun = "unbound"
        THEN [error |-> "UnboundLocalError", potential |-> <<>>,
              xaxis |-> xaxis, log |-> <<>>]
        ELSE IF fun = "interp1d" /\ \E i \in 1..p.nPoints : OutsideSupport(p, xaxis[i])
        THEN [error |-> "ValueError", potential |-> <<>>,
              xaxis |-> xaxis, log |-> <<>>]
        ELSE [error |-> "none",
              potential |-> [i \in 1..p.nPoints |-> LineAt(p, xaxis[i])],
              xaxis |-> xaxis, log |-> <<"write_potential">>]

\* ----------------------------------------------------- _write_hamiltonian
\* mutant: the spacing of nPoints samples, (xMax-xMin)/(nPoints-1)
GridSpacingPointsMinusOne(p) ==
    RDiv(RAbs(RSub(RInt(p.xMax), RInt(p.xMin))), RInt(p.nPoints - 1))

GridSpacing(p) == RDiv(RAbs(RSub(RInt(p.xMax), RInt(p.xMin))), RInt(p.nPoints))

Kinetic(p, delta) == RDiv(RInt(1), RMul(RInt(p.mass), RMul(delta, delta)))

\* [error, potential, delta, diag, offdiag, log]
write_hamiltonian(p) ==
    LET ip == interpolate_potential(p)
        delta == GridSpacing(p)
        aa == Kinetic(p, delta)
    IN  IF ip.error # "none"
        THEN [error |-> ip.error, potential |-> <<>>, delta |-> <<>>,
              diag |-> <<>>, offdiag |-> <<>>, log |-> ip.log]
        ELSE [error |-> "none", potential |-> ip.potential, delta |-> <<delta>>,
              diag |-> [i \in 1..p.nPoints |-> RAdd(aa, ip.potential[i])],
              offdiag |-> [i \in 1..(p.nPoints - 1) |->
                              RMul(RDiv(RSub(RInt(0), aa), RInt(2)), RInt(1))],
              log |-> ip.log]

\* ------------------------------------------- scipy.linalg.eigh_tridiagonal
\* The eigenvalues of the matrix are irrational in general.  An eigenvalue
\* is carried as its rank in the ascending spectrum of the matrix
\* ([rank |-> k] is the k-th smallest eigenvalue, k = 1..nPoints); the
\* spectrum of a tridiagonal matrix with non-zero off-diagonal is simple, so
\* ascending rank is ascending value.
\*
\* An eigenvector is carried as a direction with components in {-1, 0, 1}
\* (the library returns it scaled to Euclidean length 1; _norm_eigenvectors
\* divides that scale out again).  For a tridiagonal matrix with negative
\* off-diagonal the k-th eigenvector has exactly k-1 sign changes, its end
\* components are non-zero and a zero component sits between two components
\* of opposite sign.  Where a direction of the candidate set solves
\* H psi = lambda psi exactly, the solver returns it; otherwise the true
\* eigenvector is irrational and is stood for by any zero-free sign pattern
\* with k-1 sign changes.  The sign of an eigenvector is arbitrary and every
\* later stage squares the components or divides them by a positive number,
\* so directions are taken with a positive first component.
PsiValues == {-1, 0, 1}

RECURSIVE SignChangesFrom(_, _, _)
SignChangesFrom(psi, i, last) ==
    IF i > Len(psi) THEN 0
    ELSE IF psi[i] = 0 THEN SignChangesFrom(psi, i + 1, last)
    ELSE (IF last # 0 /\ psi[i] # last THEN 1 ELSE 0)
         + SignChangesFrom(psi, i + 1, psi[i])
SignChanges(psi) == SignChangesFrom(psi, 1, 0)

Oscillating(n, k) ==
    { psi \in [1..n -> PsiValues] :
        /\ psi[1] > 0 /\ psi[n] # 0
        /\ \A i \in 2..(n - 1) :
              psi[i] = 0 => (psi[i - 1] # 0 /\ psi[i + 1] = -psi[i - 1])
        /\ SignChanges(psi) = k - 1 }

\* (H psi)[i] for H = tridiag(offdiag, diag, offdiag)
Apply(diag, offdiag, psi, i) ==
    LET n == Len(diag)
        left == IF i > 1 THEN RMul(offdiag[i - 1], RInt(psi[i - 1])) ELSE RInt(0)
        right == IF i < n THEN RMul(offdiag[i], RInt(psi[i + 1])) ELSE RInt(0)
    IN  RAdd(RMul(diag[i], RInt(psi[i])), RAdd(left, right))

\* H psi is a multiple of psi
IsEigenvector(diag, offdiag, psi) ==
    \A i, j \in 1..Len(diag) :
        RMul(Apply(diag, offdiag, psi, i), RInt(psi[j]))
          = RMul(Apply(diag, offdiag, psi, j), RInt(psi[i]))

EigenvectorOfRank(diag, offdiag, k) ==
    LET cand == Oscillating(Len(diag), k)
        exact == { psi \in cand : IsEigenvector(diag, offdiag, psi) }
    IN  IF exact # {} THEN exact
        ELSE { psi \in cand : \A i \in 1..Len(diag) : psi[i] # 0 }

\* select='i': select_range must satisfy 0 <= lo <= hi < N
ValidSelectRange(n, sel) == 0 <= sel[1] /\ sel[1] <= sel[2] /\ sel[2] < n

\* every array the call can return for the 0-based index range sel: one
\* column per selected index, ascending
RECURSIVE EighTridiagonalColumns(_, _, _, _)
EighTridiagonalColumns(diag, offdiag, lo, cnt) ==
    IF cnt = 0 THEN {<<>>}
    ELSE { Append(cols, psi) :
             cols \in EighTridiagonalColumns(diag, offdiag, lo, cnt - 1),
             psi \in EigenvectorOfRank(diag, offdiag, lo + cnt) }

EighTridiagonalVectors(diag, offdiag, sel) ==
    EighTridiagonalColumns(diag, offdiag, sel[1], sel[2] - sel[1] + 1)

EighTridiagonalValues(sel) ==
    [c \in 1..(sel[2] - sel[1] + 1) |-> [rank |-> sel[1] + c]]

\* the library's array of integers-as-floats, as components
RawColumn(psi) == [i \in 1..Len(psi) |-> Fin(psi[i], RInt(1))]

\* ----------------------------------------------------- _norm_eigenvectors
\* para['Delta'] * sum(np.abs(eigenvectors[1:-1, ii])**2)
\* mutant: the boundary samples enter the sum
EigenvectorNormWithBoundary(col, delta) ==
    RMul(delta, RSum([i \in 1..Len(col) |-> Sq(col[i])]))

EigenvectorNorm(col, delta) ==
    LET inner == Interior(col)
    IN  RMul(delta, RSum([i \in 1..Len(inner) |-> Sq(inner[i])]))

\* c / np.sqrt(norm), with numpy's division by zero
DivideBySqrt(c, norm) ==
    IF ~IsFin(c) THEN NonFin("nan")
    ELSE IF norm[1] = 0
         THEN (IF c.num = 0 THEN NonFin("nan")
               ELSE IF c.num > 0 THEN NonFin("inf") ELSE NonFin("ninf"))
         ELSE Fin(c.num, RMul(c.rad, norm))

norm_eigenvectors(evs, delta) ==
    [ii \in 1..Len(evs) |->
        LET norm == EigenvectorNorm(evs[ii], delta)
        IN  [i \in 1..Len(evs[ii]) |-> DivideBySqrt(evs[ii][i], norm)]]

\* ---------------------------------------------------- expectation_values
\* mutant: the spacing is computed again, from the sample count
ExpectationDeltaRecomputed(p) ==
    RDiv(RSub(RInt(p.xMax), RInt(p.xMin)), RInt(p.nPoints - 1))

ExpectationDelta(p) == p.Delta[1]

XInterior(p, delta) ==
    Linspace(RAdd(RInt(p.xMin), delta), RSub(RInt(p.xMax), delta), p.nPoints - 2)

Value(v) == [kind |-> "fin", val |-> v]
NaN == [kind |-> "nan", val |-> RInt(0)]

\* delta*np.sum(eigenvectors[1:-1, ii]**2*x_i); a nan among the interior
\* components makes the sum nan (the only non-finite interior component the
\* normalisation can produce is nan: a zero norm means a zero interior)
Expval(col, xs, delta) ==
    LET inner == Interior(col)
    IN  IF \E i \in 1..Len(inner) : ~IsFin(inner[i]) THEN NaN
        ELSE Value(RMul(delta, RSum([i \in 1..Len(inner) |->
                                        RMul(Sq(inner[i]), xs[i])])))

\* mutant: x_i is not squared
ExpvalSquaredUnsquared(col, xs, delta) ==
    LET inner == Interior(col)
    IN  IF \E i \in 1..Len(inner) : ~IsFin(inner[i]) THEN NaN
        ELSE Value(RMul(delta, RSum([i \in 1..Len(inner) |->
                                        RMul(Sq(inner[i]), xs[i])])))

ExpvalSquared(col, xs, delta) ==
    LET inner == Interior(col)
    IN  IF \E i \in 1..Len(inner) : ~IsFin(inner[i]) THEN NaN
        ELSE Value(RMul(delta, RSum([i \in 1..Len(inner) |->
                                        RMul(Sq(inner[i]), RMul(xs[i], xs[i]))])))

\* expval_squared - expval**2
Radicand(ev, ev2) ==
    IF ev.kind = "nan" \/ ev2.kind = "nan" THEN NaN
    ELSE Value(RSub(ev2.val, RMul(ev.val, ev.val)))

\* np.sqrt(r): [kind |-> "fin", val |-> r] stands for sqrt(r); the square
\* root of a negative number is nan (numpy warns and goes on)
Uncertainty(r) ==
    IF r.kind = "nan" \/ RLt(r.val, RInt(0)) THEN NaN ELSE r

\* [expval, uncertainty], one entry per column
Observables(p, evs, delta) ==
    LET xs == XInterior(p, delta)
    IN  [expval |-> [ii \in 1..Len(evs) |-> Expval(evs[ii], xs, delta)],
         uncertainty |-> [ii \in 1..Len(evs) |->
             Uncertainty(Radicand(Expval(evs[ii], xs, delta),
                                  ExpvalSquared(evs[ii], xs, delta)))]]

\* ------------------------------------------------------ solve_hamiltonian
\* (para['first_eigenvalue']-1, para['last_eigenvalue']-1)
\* mutant: the 1-based indices are passed on as they are
SelectRangeOneBased(p) == <<p.first_eigenvalue, p.last_eigenvalue>>

SelectRange(p) == <<p.first_eigenvalue - 1, p.last_eigenvalue - 1>>

\* ------------------------------------------------------------ the machine
\* para         the configuration dictionary, with the Delta it picks up
\* potential, hamiltonian_diag, hamiltonian_offdiag
\*              the arrays of the latest Hamiltonian build (<<>>: none)
\* raw_eigenvectors
\*              the array eigh_tridiagonal returned, before it is normalised
\* eigenvalues, eigenvectors
\*              what the latest solve_hamiltonian returned (<<>>: nothing)
\* x_i          the interior coordinates expectation_values built (<<>>: none)
\* written      per persistence sink, <<>> or <<the data it was given>>
\* log          sinks and library solvers called by the latest call
\* error        the exception that ended the run, or "none"
\* deltaRead    the Delta read by _norm_eigenvectors and by
\*              expectation_values in their latest execution
Init ==
    /\ para \in Configurations
    /\ potential = <<>>
    /\ hamiltonian_diag = <<>>
    /\ hamiltonian_offdiag = <<>>
    /\ raw_eigenvectors = <<>>
    /\ eigenvalues = <<>>
    /\ eigenvectors = <<>>
    /\ x_i = <<>>
    /\ written = Unwritten
    /\ log = <<>>
    /\ error = "none"
    /\ deltaRead = [norm |-> <<>>, expectation |-> <<>>]

\* A run calls each entry point at most once, in any order, and ends with
\* the first exception.
\* test_solver.py calls interpolate_potential on its own
InterpolatePotential ==
    /\ error = "none"
    /\ written.potential = <<>>
    /\ LET ip == interpolate_potential(para)
       IN  /\ error' = ip.error
           /\ log' = ip.log
           /\ potential' = IF ip.error = "none" THEN ip.potential ELSE potential
           /\ written' = IF ip.error = "none"
                         THEN [written EXCEPT !.potential =
                                  <<[xaxis |-> ip.xaxis, potential |-> ip.potential]>>]
                         ELSE written
    /\ UNCHANGED <<para, hamiltonian_diag, hamiltonian_offdiag,
                   raw_eigenvectors, eigenvalues, eigenvectors, x_i, deltaRead>>

SolveHamiltonian ==
    /\ error = "none"
    /\ hamiltonian_diag = <<>>
    /\ x_i' = x_i
    /\ LET h == write_hamiltonian(para)
           sel == SelectRange(para)
           wrotePotential ==
               [written EXCEPT !.potential =
                   <<[xaxis |-> Xaxis(para), potential |-> h.potential]>>]
       IN  IF h.error # "none"
           THEN /\ error' = h.error
                /\ log' = h.log
                /\ UNCHANGED <<para, potential, hamiltonian_diag,
                               hamiltonian_offdiag, raw_eigenvectors,
                               eigenvalues, eigenvectors, written, deltaRead>>
           ELSE /\ para' = [para EXCEPT !.Delta = h.delta]
                /\ potential' = h.potential
                /\ hamiltonian_diag' = h.diag
                /\ hamiltonian_offdiag' = h.offdiag
                /\ IF ~ValidSelectRange(para.nPoints, sel)
                   THEN /\ error' = "ValueError"
                        /\ log' = h.log \o <<"eigh_tridiagonal">>
                        /\ written' = wrotePotential
                        /\ UNCHANGED <<raw_eigenvectors, eigenvalues,
                                       eigenvectors, deltaRead>>
                   ELSE \E raw \in EighTridiagonalVectors(h.diag, h.offdiag, sel) :
                        LET delta == para'.Delta[1]
                            rawcols == [c \in 1..Len(raw) |-> RawColumn(raw[c])]
                            normed == norm_eigenvectors(rawcols, delta)
                        IN  /\ error' = "none"
                            /\ raw_eigenvectors' = rawcols
                            /\ eigenvalues' = EighTridiagonalValues(sel)
                            /\ eigenvectors' = normed
                            /\ deltaRead' = [deltaRead EXCEPT !.norm = <<delta>>]
                            /\ log' = h.log \o <<"eigh_tridiagonal", "write_eigenvalues",
                                                 "write_eigenvectors">>
                            /\ written' =
                                 [wrotePotential EXCEPT
                                    !.eigenvalues = <<EighTridiagonalValues(sel)>>,
                                    !.eigenvectors =
                                       <<[xaxis |-> Xaxis(para),
                                          eigenvectors |-> normed]>>]

\* the arrays a caller can pass: what solve_hamiltonian returned, or an
\* array of its own with nPoints rows (here one column that nobody
\* normalised: all ones, or the ramp 1, 2, ..., nPoints)
CallerEigenvectors ==
    (IF eigenvectors # <<>> THEN {eigenvectors} ELSE {})
      \cup { <<RawColumn([i \in 1..para.nPoints |-> 1])>>,
             <<RawColumn([i \in 1..para.nPoints |-> i])>> }

ExpectationValues ==
    /\ error = "none"
    /\ written.expectation_values = <<>>
    /\ \E evs \in CallerEigenvectors :
          IF para.Delta = <<>>
          THEN /\ error' = "KeyError"
               /\ log' = <<>>
               /\ UNCHANGED <<written, deltaRead, x_i>>
          ELSE LET delta == ExpectationDelta(para)
                   obs == Observables(para, evs, delta)
               IN  /\ error' = "none"
                   /\ log' = <<"write_expectation_values">>
                   /\ x_i' = XInterior(para, delta)
                   /\ deltaRead' = [deltaRead EXCEPT !.expectation = <<delta>>]
                   /\ written' = [written EXCEPT !.expectation_values =
                                     <<[eigenvectors |-> evs, expval |-> obs.expval,
                                        uncertainty |-> obs.uncertainty]>>]
    /\ UNCHANGED <<para, potential, hamiltonian_diag, hamiltonian_offdiag,
                   raw_eigenvectors, eigenvalues, eigenvectors>>

Next == InterpolatePotential \/ SolveHamiltonian \/ ExpectationValues

Spec == Init /\ [][Next]_vars

\* ================================================================ claims
Length == para.xMax - para.xMin
\* (xMax-xMin)/nPoints, written out from the configuration
CanonicalDelta == Rat(Length, para.nPoints)
ValidIndexRange ==
    /\ 1 <= para.first_eigenvalue
    /\ para.first_eigenvalue <= para.last_eigenvalue
    /\ para.last_eigenvalue <= para.nPoints
InLog(e) == \E i \in 1..Len(log) : log[i] = e
InteriorSquares(col) ==
    RSum([i \in 1..(Len(col) - 2) |-> Sq(col[i + 1])])
AllFinite(col) == \A i \in 1..Len(col) : IsFin(col[i])

\* C1: once the Hamiltonian is built, the diagonal has nPoints entries
\* a + V[i] and the off-diagonal nPoints-1 entries -a/2, with
\* a = 1/(m*Delta^2) = nPoints^2 / (m*(xMax-xMin)^2), Delta = (xMax-xMin)/nPoints.
C1_Hamiltonian ==
    hamiltonian_diag # <<>> =>
        LET a == Rat(para.nPoints * para.nPoints, para.mass * Length * Length)
        IN  /\ Len(potential) = para.nPoints
            /\ Len(hamiltonian_diag) = para.nPoints
            /\ \A i \in 1..para.nPoints :
                  hamiltonian_diag[i] = RAdd(a, potential[i])
            /\ Len(hamiltonian_offdiag) = para.nPoints - 1
            /\ \A i \in 1..(para.nPoints - 1) :
                  RAdd(RMul(RInt(2), hamiltonian_offdiag[i]), a) = RInt(0)

C1_Witness ==
    /\ hamiltonian_diag # <<>>
    /\ para.mass = 2
    /\ para.nPoints = 4
    /\ potential[1] # potential[2]

C3_InteriorNorm ==
    \A c \in 1..Len(eigenvectors) :
        RLt(RInt(0), InteriorSquares(raw_eigenvectors[c])) =>
            /\ AllFinite(eigenvectors[c])
            /\ RMul(CanonicalDelta, InteriorSquares(eigenvectors[c])) = RInt(1)
            /\ \A i \in 1..para.nPoints :
                  /\ eigenvectors[c][i].num = raw_eigenvectors[c][i].num
                  /\ eigenvectors[c][i].rad = eigenvectors[c][2].rad

C3_Witness ==
    /\ Len(eigenvectors) = 2
    /\ para.nPoints = 4
    /\ \A c \in 1..2 : AllFinite(eigenvectors[c])
    /\ raw_eigenvectors[2][1].num # raw_eigenvectors[2][4].num
    /\ para.mass = 2

\* C4 (as claimed): with an invalid index range the eigensolver is never
\* invoked.
C4_RejectedBeforeSolver ==
    ~ValidIndexRange => ~InLog("eigh_tridiagonal")

\* C5 (as claimed): a run that failed has persisted nothing.
C5_NoPartialResults ==
    error # "none" => written = Unwritten

\* C6 (as claimed): no nan or infinity is handed to write_eigenvectors or to
\* write_expectation_values.
C6_NoNaNPersisted ==
    /\ \A w \in 1..Len(written.eigenvectors) :
          \A c \in 1..Len(written.eigenvectors[w].eigenvectors) :
              AllFinite(written.eigenvectors[w].eigenvectors[c])
    /\ \A w \in 1..Len(written.expectation_values) :
          \A c \in 1..Len(written.expectation_values[w].expval) :
              /\ written.expectation_values[w].expval[c].kind = "fin"
              /\ written.expectation_values[w].uncertainty[c].kind = "fin"

C8_XInterior ==
    x_i # <<>> =>
        /\ Len(x_i) = para.nPoints - 2
        /\ x_i[1] = RAdd(RInt(para.xMin), CanonicalDelta)
        /\ x_i[Len(x_i)] = RSub(RInt(para.xMax), CanonicalDelta)
        /\ \A j \in 1..(Len(x_i) - 1) :
              RSub(x_i[j + 1], x_i[j]) = CanonicalDelta
        /\ \A j \in 1..Len(x_i) : x_i[j] = Xaxis(para)[j + 1]

\* C9: the Delta stored on the configuration is the one a Hamiltonian build
\* produced, (xMax-xMin)/nPoints, and it is the value _norm_eigenvectors and
\* expectation_values read; observables are never written without it.
C9_DeltaConsistent ==
    /\ para.Delta # <<>> =>
          (hamiltonian_diag # <<>> /\ para.Delta = <<CanonicalDelta>>)
    /\ deltaRead.norm # <<>> => deltaRead.norm = para.Delta
    /\ deltaRead.expectation # <<>> =>
          (hamiltonian_diag # <<>> /\ deltaRead.expectation = para.Delta)
    /\ written.expectation_values # <<>> => deltaRead.expectation # <<>>
    /\ eigenvectors # <<>> => deltaRead.norm # <<>>

C9_Witness ==
    /\ deltaRead.norm # <<>>
    /\ deltaRead.expectation # <<>>
    /\ para.nPoints = 4

\* C10: for every column handed to expectation_values that satisfies the
\* interior normalisation, <x> lies in [xMin+Delta, xMax-Delta] and the
\* radicand <x^2> - <x>^2 is not negative.
C10_ExpectationInRange ==
    \A w \in 1..Len(written.expectation_values) :
        LET out == written.expectation_values[w]
        IN  \A c \in 1..Len(out.eigenvectors) :
                ( /\ \A i \in 2..(para.nPoints - 1) : IsFin(out.eigenvectors[c][i])
                  /\ RMul(CanonicalDelta, InteriorSquares(out.eigenvectors[c]))
                       = RInt(1) )
                => /\ out.expval[c].kind = "fin"
                   /\ RLeq(RAdd(RInt(para.xMin), CanonicalDelta), out.expval[c].val)
                   /\ RLeq(out.expval[c].val, RSub(RInt(para.xMax), CanonicalDelta))
                   /\ out.uncertainty[c].kind = "fin"
                   /\ RLeq(RInt(0), out.uncertainty[c].val)

C10_Witness ==
    /\ written.expectation_values # <<>>
    /\ written.expectation_values[1].eigenvectors = eigenvectors
    /\ Len(eigenvectors) = 2
    /\ \A c \in 1..2 :
          /\ written.expectation_values[1].uncertainty[c].kind = "fin"
          /\ RLt(RInt(0), written.expectation_values[1].uncertainty[c].val)
    /\ para.xMin < 0

====
